---- MODULE Spec2Model ----
(***************************************************************************)
(* A model of streamlit_app.py: the volunteer-event catalogue loader       *)
(* (load_volunteer_data), the feedback store kept in FEEDBACK_CSV          *)
(* (ensure_feedback_csv, load_feedback, save_feedback, store_feedback,     *)
(* get_event_rating) and the script that Streamlit re-runs top to bottom   *)
(* for every interaction of every browser session.                         *)
(*                                                                         *)
(* Text is a sequence of one-character strings, so that slicing, joining   *)
(* and substring search are computed as pandas / Python compute them.      *)
(***************************************************************************)
EXTENDS Integers, Sequences, FiniteSets, TLC

VARIABLES
    primary_csv,      \* "Merged_Enriched_Events_CLUSTERED.csv" on disk
    historical_csv,   \* "NYC_Service__Volunteer_Opportunities__Historical__20250626.csv"
    run,              \* outcome of the last script run of the catalogue part
    feedback_csv,     \* FEEDBACK_CSV on disk
    now,              \* the UTC clock read by datetime.utcnow()
    pc,               \* per session: where its script run stands
    pending,          \* per session: the Submit Feedback click being handled
    local,            \* per session: store_feedback's local df and timestamp
    recommendation,   \* the last call of the recommendation engine
    session_state,    \* st.session_state: the keys the sidebar keeps
    sidebar           \* the message the sidebar showed when it was last drawn

vars == <<primary_csv, historical_csv, run, feedback_csv, now, pc, pending, local,
          recommendation, session_state, sidebar>>


(***************************************************************************)
(* Values.                                                                 *)
(***************************************************************************)

\* pandas' missing-value marker (float nan) in a cell
NaN == <<"NaN">>

\* Python's None, the default of row.get(col)
None == <<"None">>

\* str(nan), what an f-string and astype(str) make of a missing value
NAN_TEXT == <<"n", "a", "n">>

\* the default location placeholder
NEW_YORK_NY == <<"N", "e", "w", " ", "Y", "o", "r", "k", ",", " ", "N", "Y">>

COMMA_SPACE == <<",", " ">>

COMMA_NY == <<",", " ", "N", "Y">>

UNDERSCORE == <<"_">>

ELLIPSIS == <<".", ".", ".">>

\* merged_df['title'].str[:10]
EVENT_ID_TITLE_LEN == 10

\* merged_df['description'].str[:150]
SHORT_DESCRIPTION_LEN == 150

\* s[:n]
Take(s, n) == SubSeq(s, 1, IF Len(s) < n THEN Len(s) ELSE n)

\* Python truthiness of a cell: only "" and None are falsy; nan is truthy
IsTruthy(v) == v # <<>> /\ v # None

\* str(v), as used by f-strings and astype(str)
Str(v) == IF v = NaN THEN NAN_TEXT ELSE IF v = None THEN <<"N", "o", "n", "e">> ELSE v

\* row.get(col, default)
Get(row, col, default) == IF col \in DOMAIN row THEN row[col] ELSE default

\* st.session_state of a session that has not drawn its sidebar yet
NewSession == [key \in {} |-> FALSE]

\* the sidebar shows no message
NoMessage == <<>>

\* the recommendation engine has not been called
NoRecommendation == [called |-> FALSE, event_index |-> 0, matrix |-> <<>>, k |-> 0, result |-> <<>>]

(***************************************************************************)
(* Tables (DataFrames): a set of column names and a sequence of rows, each *)
(* row a function from the column names to cells.  A CSV file is missing,  *)
(* unreadable, or holds a table.                                           *)
(***************************************************************************)

EmptyTable == [columns |-> {}, rows |-> <<>>]

File(status, columns, rows) == [status |-> status, columns |-> columns, rows |-> rows]

\* df.fillna("")
fillna(df) ==
    [columns |-> df.columns,
     rows |-> [i \in DOMAIN df.rows |->
                 [c \in df.columns |->
                    IF df.rows[i][c] = NaN THEN <<>> ELSE df.rows[i][c]]]]

\* the columns load_volunteer_data selects from historical_df
HISTORICAL_COLUMNS == {"opportunity_id", "locality", "region", "Borough", "Latitude", "Longitude"}

\* historical_df[[...]]
select_columns(df, cols) ==
    [columns |-> cols,
     rows |-> [i \in DOMAIN df.rows |-> [c \in cols |-> df.rows[i][c]]]]

\* the rows a left join makes of one left row: one per matching right row, in
\* the right table's order, or one with the right columns missing (nan)
merge_row(lrow, right, key) ==
    LET matches == SelectSeq(right.rows, LAMBDA r : r[key] = lrow[key])
        extra == right.columns \ {key}
    IN  IF matches = <<>>
        THEN << [c \in DOMAIN lrow \cup extra |->
                   IF c \in DOMAIN lrow THEN lrow[c] ELSE NaN] >>
        ELSE [j \in DOMAIN matches |->
                [c \in DOMAIN lrow \cup extra |->
                   IF c \in DOMAIN lrow THEN lrow[c] ELSE matches[j][c]]]

RECURSIVE merge_rows(_, _, _)
merge_rows(lrows, right, key) ==
    IF lrows = <<>> THEN <<>>
    ELSE merge_row(Head(lrows), right, key) \o merge_rows(Tail(lrows), right, key)

\* left.merge(right, on=key, how='left')
merge(left, right, key) ==
    [columns |-> left.columns \cup right.columns,
     rows |-> merge_rows(left.rows, right, key)]

\* the lambda of merged_df.apply(..., axis=1)
location_display(row) ==
    IF IsTruthy(Get(row, "locality", None))
    THEN Str(Get(row, "locality", <<>>)) \o COMMA_SPACE \o Str(Get(row, "region", <<>>))
    ELSE IF IsTruthy(Get(row, "Borough", None))
         THEN Str(Get(row, "Borough", <<>>)) \o COMMA_NY
         ELSE NEW_YORK_NY

text_columns == {"title", "description", "org_title", "Topical Theme", "Mood/Intent", "location_display"}

\* df[col] = f(row) for every row: adds or replaces a column
with_column(df, col, f(_)) ==
    [columns |-> df.columns \cup {col},
     rows |-> [i \in DOMAIN df.rows |->
                 [c \in df.columns \cup {col} |->
                    IF c = col THEN f(df.rows[i]) ELSE df.rows[i][c]]]]

\* for col in text_columns: if col in merged_df.columns: astype(str)
astype_str(df) ==
    [columns |-> df.columns,
     rows |-> [i \in DOMAIN df.rows |->
                 [c \in df.columns |->
                    IF c \in text_columns THEN Str(df.rows[i][c]) ELSE df.rows[i][c]]]]

\* opportunity_id.astype(str) + "_" + title.str[:10]
event_id_of(row) ==
    Str(row["opportunity_id"]) \o UNDERSCORE \o Take(row["title"], EVENT_ID_TITLE_LEN)

\* a summary that appends the marker to the whole description, without the
\* slice
short_description_unsliced(row) == row["description"] \o ELLIPSIS

\* description.str[:150] + "..."
short_description(row) == Take(row["description"], SHORT_DESCRIPTION_LEN) \o ELLIPSIS

Raise(error) == [error |-> error, df |-> EmptyTable]

Return(df) == [error |-> "", df |-> df]

\* pd.read_csv(path): the exception it raises, "" when it returns a table
read_csv_error(file) ==
    CASE file.status = "missing" -> "FileNotFoundError"
      [] file.status = "unreadable" -> "ParserError"
      [] OTHER -> ""

\* load_volunteer_data() once both files are read: the cleaning, the merge
\* and the derived columns
merge_and_derive(primary, historical) ==
    LET enriched_df == fillna(primary)
        historical_df == fillna(historical)
    IN  IF ~(HISTORICAL_COLUMNS \subseteq historical_df.columns) THEN Raise("KeyError")
        ELSE IF "opportunity_id" \notin enriched_df.columns THEN Raise("KeyError")
        ELSE
        LET merged_df == merge(enriched_df, select_columns(historical_df, HISTORICAL_COLUMNS),
                               "opportunity_id")
            located == with_column(merged_df, "location_display", location_display)
            strings == astype_str(located)
        IN  IF "title" \notin strings.columns THEN Raise("KeyError")
            ELSE
            LET identified == with_column(strings, "event_id", event_id_of)
            IN  IF "description" \notin identified.columns THEN Raise("KeyError")
                ELSE Return(with_column(identified, "short_description", short_description))

\* a loader that swallows a failed read of the enriched file and goes on with
\* an empty catalogue
load_volunteer_data_swallowing(primary, historical) ==
    IF read_csv_error(primary) # "" THEN Return(EmptyTable)
    ELSE IF read_csv_error(historical) # "" THEN Raise(read_csv_error(historical))
    ELSE merge_and_derive(primary, historical)

\* load_volunteer_data(): the table it returns or the exception it raises
load_volunteer_data(primary, historical) ==
    IF read_csv_error(primary) # "" THEN Raise(read_csv_error(primary))
    ELSE IF read_csv_error(historical) # "" THEN Raise(read_csv_error(historical))
    ELSE merge_and_derive(primary, historical)

(***************************************************************************)
(* The search block of the script.                                         *)
(***************************************************************************)

UPPERCASE == <<"A", "B", "C", "D", "E", "F", "G", "H", "I", "J", "K", "L", "M",
               "N", "O", "P", "Q", "R", "S", "T", "U", "V", "W", "X", "Y", "Z">>

LOWERCASE == <<"a", "b", "c", "d", "e", "f", "g", "h", "i", "j", "k", "l", "m",
               "n", "o", "p", "q", "r", "s", "t", "u", "v", "w", "x", "y", "z">>

\* str.lower() of one character
lower_char(c) ==
    IF \E i \in DOMAIN UPPERCASE : UPPERCASE[i] = c
    THEN LOWERCASE[CHOOSE i \in DOMAIN UPPERCASE : UPPERCASE[i] = c]
    ELSE c

\* str.lower()
lower(s) == [i \in DOMAIN s |-> lower_char(s[i])]

\* the number of groups left open at the end of pat, -1 once a ")" closes
\* a group that was never opened
RECURSIVE paren_depth(_, _)
paren_depth(pat, depth) ==
    IF pat = <<>> THEN depth
    ELSE IF Head(pat) = "(" THEN paren_depth(Tail(pat), depth + 1)
    ELSE IF Head(pat) = ")"
         THEN (IF depth = 0 THEN -1 ELSE paren_depth(Tail(pat), depth - 1))
    ELSE paren_depth(Tail(pat), depth)

\* re.compile(pat): the exception it raises, "" when the pattern compiles.
\* str.contains takes pat for a regular expression (regex=True is its
\* default).  Patterns here are made of letters, digits, blanks and the
\* metacharacters ".", "(" and ")".
re_error(pat) == IF paren_depth(pat, 0) # 0 THEN "re.error" ELSE ""

\* str.contains(pat, na=False): pat is searched as a regular expression, in
\* which "." stands for any character and the parentheses of a group stand
\* for no character; a missing cell does not match
contains(s, pat) ==
    LET p == SelectSeq(pat, LAMBDA c : c \notin {"(", ")"})
    IN  /\ s # NaN
        /\ IF \A k \in DOMAIN p : p[k] # "."
           THEN \E i \in 0..(Len(s) - Len(p)) : SubSeq(s, i + 1, i + Len(p)) = p
           ELSE \E i \in 0..(Len(s) - Len(p)) :
                   \A k \in DOMAIN p : p[k] = "." \/ p[k] = s[i + k]

\* str.contains(pat, na=False, case=False)
contains_nocase(s, pat) == s # NaN /\ contains(lower(s), lower(pat))

\* str.startswith(prefix, na=False)
startswith(s, prefix) ==
    s # NaN /\ Len(prefix) <= Len(s) /\ SubSeq(s, 1, Len(prefix)) = prefix

\* str.split(): the maximal runs of non-blank characters
RECURSIVE split_from(_, _)
split_from(s, word) ==
    IF s = <<>> THEN (IF word = <<>> THEN <<>> ELSE <<word>>)
    ELSE IF Head(s) = " "
         THEN (IF word = <<>> THEN <<>> ELSE <<word>>) \o split_from(Tail(s), <<>>)
         ELSE split_from(Tail(s), Append(word, Head(s)))

split(s) == split_from(s, <<>>)

NO_PREFERENCE == <<"(", "n", "o", " ", "p", "r", "e", "f", "e", "r", "e", "n", "c", "e", ")">>

\* the entries of the intention selectbox
mood_options(df) ==
    {NO_PREFERENCE} \cup
    (IF "Mood/Intent" \in df.columns
     THEN {df.rows[i]["Mood/Intent"] : i \in DOMAIN df.rows} \ {<<>>, NAN_TEXT, NaN}
     ELSE {})

\* the entries of the weather selectbox
WEATHER_OPTIONS ==
    { <<>>,
      <<"I", "n", "d", "o", "o", "r", "s">>,
      <<"O", "u", "t", "d", "o", "o", "r", "s">>,
      <<"F", "l", "e", "x", "i", "b", "l", "e">> }

\* the three filters, applied to the whole table or to a word's matches
apply_filters(rows, columns, mood_input, zipcode_input, weather_filter) ==
    LET by_mood ==
            IF mood_input # NO_PREFERENCE
            THEN SelectSeq(rows, LAMBDA r : contains_nocase(r["Mood/Intent"], mood_input))
            ELSE rows
        by_zip ==
            IF zipcode_input # <<>> /\ "Postcode" \in columns
            THEN SelectSeq(by_mood, LAMBDA r : startswith(Str(r["Postcode"]), zipcode_input))
            ELSE by_mood
    IN  IF weather_filter # <<>> /\ "Weather Badge" \in columns
        THEN SelectSeq(by_zip, LAMBDA r : contains_nocase(r["Weather Badge"], weather_filter))
        ELSE by_zip

\* text_mask for one row
text_mask(r, query_lower) ==
    \/ contains(lower(r["title"]), query_lower)
    \/ contains(lower(r["description"]), query_lower)
    \/ ("Topical Theme" \in DOMAIN r /\ contains(lower(r["Topical Theme"]), query_lower))
    \/ ("Mood/Intent" \in DOMAIN r /\ contains(lower(r["Mood/Intent"]), query_lower))

\* word_mask for one row
word_mask(r, word) ==
    \/ contains(lower(r["title"]), word)
    \/ contains(lower(r["description"]), word)

\* drop_duplicates(): the first occurrence of every row is kept
RECURSIVE drop_duplicates(_)
drop_duplicates(rows) ==
    IF rows = <<>> THEN <<>>
    ELSE LET init == drop_duplicates(SubSeq(rows, 1, Len(rows) - 1))
             last == rows[Len(rows)]
         IN  IF \E i \in DOMAIN init : init[i] = last THEN init ELSE Append(init, last)

\* the loop over the words of the query
RECURSIVE word_fallback(_, _, _, _, _, _)
word_fallback(results, words, df, mood_input, zipcode_input, weather_filter) ==
    IF words = <<>> THEN results
    ELSE LET word_results ==
                 apply_filters(SelectSeq(df.rows, LAMBDA r : word_mask(r, Head(words))),
                               df.columns, mood_input, zipcode_input, weather_filter)
         IN  word_fallback(drop_duplicates(results \o word_results), Tail(words), df,
                           mood_input, zipcode_input, weather_filter)

\* results[text_mask]: the filtered rows that match the whole query
text_results(df, search_query, mood_input, zipcode_input, weather_filter) ==
    SelectSeq(apply_filters(df.rows, df.columns, mood_input, zipcode_input, weather_filter),
              LAMBDA r : text_mask(r, lower(search_query)))

\* a search block that reads the column of every filter that is set, whether
\* or not the table has it
search_error_unchecked(df, search_query, mood_input, zipcode_input, weather_filter) ==
    IF \/ (zipcode_input # <<>> /\ "Postcode" \notin df.columns)
       \/ (weather_filter # <<>> /\ "Weather Badge" \notin df.columns)
    THEN "KeyError"
    ELSE ""

\* the exception the search block raises for a non-empty query, "" when it
\* raises none: every str.contains compiles its pattern, whatever rows are
\* left to match
search_error(df, search_query, mood_input, zipcode_input, weather_filter) ==
    LET query_lower == lower(search_query)
    IN  IF mood_input # NO_PREFERENCE /\ re_error(mood_input) # ""
        THEN re_error(mood_input)
        ELSE IF /\ weather_filter # <<>>
                /\ "Weather Badge" \in df.columns
                /\ re_error(weather_filter) # ""
        THEN re_error(weather_filter)
        ELSE IF re_error(query_lower) # "" THEN re_error(query_lower)
        ELSE IF /\ \E i \in DOMAIN split(query_lower) : re_error(split(query_lower)[i]) # ""
                /\ Len(text_results(df, search_query, mood_input,
                                    zipcode_input, weather_filter)) = 0
        THEN "re.error"
        ELSE ""

\* the rows the search block leaves in `results` for a non-empty query
search(df, search_query, mood_input, zipcode_input, weather_filter) ==
    LET query_lower == lower(search_query)
        results == text_results(df, search_query, mood_input, zipcode_input, weather_filter)
    IN  IF Len(results) = 0
        THEN word_fallback(results, split(query_lower), df,
                           mood_input, zipcode_input, weather_filter)
        ELSE results

\* results.head(15)
DISPLAY_LIMIT == 15

\* the columns every event card reads unconditionally
CARD_COLUMNS == {"title", "org_title", "location_display", "event_id"}

\* the exception raised while the result cards are drawn, "" when there is none
display_error(df, results) ==
    IF Len(results) > 0 /\ ~(CARD_COLUMNS \subseteq df.columns) THEN "KeyError" ELSE ""

(***************************************************************************)
(* The feedback file.                                                      *)
(***************************************************************************)

\* FEEDBACK_CSV before it is first created
NoFeedbackFile == [exists |-> FALSE, rows |-> <<>>]

\* ensure_feedback_csv(): the file it leaves on disk
ensure_feedback_csv(file) ==
    IF ~file.exists THEN [exists |-> TRUE, rows |-> <<>>] ELSE file

\* the texts pd.read_csv takes for a missing value
NA_VALUES ==
    { <<>>,
      <<"#", "N", "/", "A">>,
      <<"#", "N", "/", "A", " ", "N", "/", "A">>,
      <<"#", "N", "A">>,
      <<"-", "1", ".", "#", "I", "N", "D">>,
      <<"-", "1", ".", "#", "Q", "N", "A", "N">>,
      <<"-", "N", "a", "N">>,
      <<"-", "n", "a", "n">>,
      <<"1", ".", "#", "I", "N", "D">>,
      <<"1", ".", "#", "Q", "N", "A", "N">>,
      <<"<", "N", "A", ">">>,
      <<"N", "/", "A">>,
      <<"N", "A">>,
      <<"N", "U", "L", "L">>,
      <<"N", "a", "N">>,
      <<"N", "o", "n", "e">>,
      <<"n", "/", "a">>,
      <<"n", "a", "n">>,
      <<"n", "u", "l", "l">> }

DIGITS == {"0", "1", "2", "3", "4", "5", "6", "7", "8", "9"}

\* an integer literal without sign or leading zero, as str(int) writes it
is_int_text(t) ==
    /\ t # <<>>
    /\ \A i \in DOMAIN t : t[i] \in DIGITS
    /\ (Len(t) > 1 => t[1] # "0")

\* a float literal as str(float) writes it: digits, a point, digits
is_float_text(t) ==
    \E k \in 2..(Len(t) - 1) :
        /\ t[k] = "."
        /\ is_int_text(SubSeq(t, 1, k - 1)) \/ SubSeq(t, 1, k - 1) = <<"0">>
        /\ \A i \in (k + 1)..Len(t) : t[i] \in DIGITS
        /\ (Len(t) > k + 1 => t[Len(t)] # "0")

\* the cell pd.read_csv makes of a text of the comment column, written the way
\* to_csv writes it back: a missing value for the texts of NA_VALUES; in a
\* column whose other texts are all numbers, the number (a float as soon as a
\* value is missing or one of them is a float); the text itself otherwise
read_cell(text, column) ==
    LET present == {column[i] : i \in DOMAIN column} \ NA_VALUES
        numeric == \A t \in present : is_int_text(t) \/ is_float_text(t)
        floats == \/ \E i \in DOMAIN column : column[i] \in NA_VALUES
                  \/ \E t \in present : is_float_text(t)
    IN  IF text \in NA_VALUES THEN NaN
        ELSE IF numeric /\ floats /\ is_int_text(text) THEN text \o <<".", "0">>
        ELSE text

\* load_feedback(): the DataFrame read from the file, empty when there is no
\* file.  event_id (which holds an underscore), the integer rating and the
\* ISO timestamp are read back as they were written.
load_feedback(file) ==
    IF file.exists
    THEN [i \in DOMAIN file.rows |->
            [file.rows[i] EXCEPT
               !.comment = read_cell(@, [j \in DOMAIN file.rows |-> file.rows[j].comment])]]
    ELSE <<>>

\* save_feedback(df): the file df.to_csv(FEEDBACK_CSV, index=False) writes; a
\* missing value is written as the empty text
save_feedback(df) ==
    [exists |-> TRUE,
     rows |-> [i \in DOMAIN df |->
                 [df[i] EXCEPT !.comment = IF @ = NaN THEN <<>> ELSE @]]]

\* a store that appends a row for every submission, whether or not the event
\* already has one
updated_feedback_appending(df, event_id, rating, comment, timestamp) ==
    Append(df, [event_id |-> event_id, rating |-> rating,
                comment |-> comment, timestamp |-> timestamp])

\* a store whose update path overwrites the rating and the timestamp but
\* leaves the earlier comment in place
updated_feedback_keeping_comment(df, event_id, rating, comment, timestamp) ==
    IF \E i \in DOMAIN df : df[i].event_id = event_id
    THEN [i \in DOMAIN df |->
            IF df[i].event_id = event_id
            THEN [df[i] EXCEPT !.rating = rating, !.timestamp = timestamp]
            ELSE df[i]]
    ELSE Append(df, [event_id |-> event_id, rating |-> rating,
                     comment |-> comment, timestamp |-> timestamp])

\* a store whose update path adds the new rating to the one already stored
updated_feedback_accumulating(df, event_id, rating, comment, timestamp) ==
    IF \E i \in DOMAIN df : df[i].event_id = event_id
    THEN [i \in DOMAIN df |->
            IF df[i].event_id = event_id
            THEN [df[i] EXCEPT !.rating = @ + rating, !.comment = comment,
                               !.timestamp = timestamp]
            ELSE df[i]]
    ELSE Append(df, [event_id |-> event_id, rating |-> rating,
                     comment |-> comment, timestamp |-> timestamp])

\* the body of store_feedback between load_feedback() and save_feedback(df):
\* the rows of event_id are overwritten, or a row is appended when there is none
updated_feedback(df, event_id, rating, comment, timestamp) ==
    IF \E i \in DOMAIN df : df[i].event_id = event_id
    THEN [i \in DOMAIN df |->
            IF df[i].event_id = event_id
            THEN [df[i] EXCEPT !.rating = rating, !.comment = comment,
                               !.timestamp = timestamp]
            ELSE df[i]]
    ELSE Append(df, [event_id |-> event_id, rating |-> rating,
                     comment |-> comment, timestamp |-> timestamp])

\* store_feedback(event_id, rating, comment) run without interruption at time
\* `timestamp`: the file it leaves
store_feedback(file, event_id, rating, comment, timestamp) ==
    save_feedback(updated_feedback(load_feedback(file), event_id, rating, comment, timestamp))

RECURSIVE Sum(_)
Sum(ratings) == IF ratings = <<>> THEN 0 ELSE Head(ratings) + Sum(Tail(ratings))

\* round(x, 2) of the fraction num / den, in hundredths (ties to even)
round2(num, den) ==
    LET q == (100 * num) \div den
        r == (100 * num) % den
    IN  IF 2 * r < den THEN q
        ELSE IF 2 * r > den THEN q + 1
        ELSE IF q % 2 = 0 THEN q ELSE q + 1

\* an aggregation that forgets to select the rows of the event and averages
\* the whole rating column
get_event_rating_unfiltered(file, event_id) ==
    LET df == load_feedback(file)
        ratings == [i \in DOMAIN df |-> df[i].rating]
    IN  IF ratings = <<>> THEN <<>> ELSE <<round2(Sum(ratings), Len(ratings))>>

\* get_event_rating(event_id): <<>> for None, else the one float returned,
\* held in hundredths
get_event_rating(file, event_id) ==
    LET df == load_feedback(file)
        matching == SelectSeq(df, LAMBDA row : row.event_id = event_id)
        ratings == [i \in DOMAIN matching |-> matching[i].rating]
    IN  IF ratings = <<>> THEN <<>> ELSE <<round2(Sum(ratings), Len(ratings))>>

(***************************************************************************)
(* The source files the catalogue is loaded from.                          *)
(***************************************************************************)

MaxPrimaryRows == 2

MaxHistoricalRows == 2

PRIMARY_COLUMNS ==
    {"opportunity_id", "title", "description", "org_title", "Topical Theme",
     "Mood/Intent", "Postcode", "Weather Badge"}

\* rows of the enriched events file: two events described in full and one
\* with most of its cells empty
GardenEvent ==
    [title |-> <<"C", "o", "m", "m", "u", "n", "i", "t", "y", " ", "G", "a", "r", "d", "e", "n", " ", "V", "o", "l", "u", "n", "t", "e", "e", "r">>,
     description |-> <<"H", "e", "l", "p", " ", "m", "a", "i", "n", "t", "a", "i", "n", " ", "c", "o", "m", "m", "u", "n", "i", "t", "y", " ", "g", "a", "r", "d", "e", "n", "s">>,
     org_title |-> <<"B", "r", "o", "o", "k", "l", "y", "n", " ", "C", "o", "m", "m", "u", "n", "i", "t", "y", " ", "G", "a", "r", "d", "e", "n", "s">>]
    @@ ("Topical Theme" :> <<"E", "n", "v", "i", "r", "o", "n", "m", "e", "n", "t">>)
    @@ ("Mood/Intent" :> <<"O", "u", "t", "d", "o", "o", "r", " ", "A", "c", "t", "i", "v", "i", "t", "y">>)
    @@ ("Postcode" :> <<"1", "1", "2", "0", "1">>)
    @@ ("Weather Badge" :> <<"O", "u", "t", "d", "o", "o", "r", "s">>)

TutoringEvent ==
    [title |-> <<"Y", "o", "u", "t", "h", " ", "T", "u", "t", "o", "r", "i", "n", "g", " ", "P", "r", "o", "g", "r", "a", "m">>,
     description |-> <<"T", "u", "t", "o", "r", " ", "k", "i", "d", "s", " ", "i", "n", " ", "m", "a", "t", "h">>,
     org_title |-> <<"N", "Y", "C", " ", "E", "d", "u", "c", "a", "t", "i", "o", "n", " ", "A", "l", "l", "i", "a", "n", "c", "e">>]
    @@ ("Topical Theme" :> <<"E", "d", "u", "c", "a", "t", "i", "o", "n">>)
    @@ ("Mood/Intent" :> <<"S", "k", "i", "l", "l", " ", "B", "u", "i", "l", "d", "i", "n", "g">>)
    @@ ("Postcode" :> <<"1", "0", "0", "2", "7">>)
    @@ ("Weather Badge" :> <<"I", "n", "d", "o", "o", "r", "s">>)

SparseEvent ==
    [title |-> <<"C", "o", "m", "m", "u", "n", "i", "t", "y", " ", "G", "a", "r", "d", "e", "n", " ", "C", "l", "e", "a", "n", "u", "p">>,
     description |-> NaN,
     org_title |-> NaN]
    @@ ("Topical Theme" :> NaN)
    @@ ("Mood/Intent" :> NaN)
    @@ ("Postcode" :> NaN)
    @@ ("Weather Badge" :> NaN)

\* the enriched file's rows: opportunity 1 and two candidates for opportunity 2
PrimaryRows ==
    { [opportunity_id |-> <<"1">>] @@ GardenEvent,
      [opportunity_id |-> <<"2">>] @@ TutoringEvent,
      [opportunity_id |-> <<"2">>] @@ SparseEvent }

HistoricalPlace(locality, region, Borough) ==
    [locality |-> locality, region |-> region, Borough |-> Borough,
     Latitude |-> <<"4", "0", ".", "7">>, Longitude |-> <<"-", "7", "3", ".", "9">>]

\* the historical file's rows: opportunity 1 with a full address, opportunity 1
\* again with a borough only, opportunity 3 (not in the enriched file) with
\* no place at all
HistoricalRows ==
    { [opportunity_id |-> <<"1">>]
        @@ HistoricalPlace(<<"B", "r", "o", "n", "x">>, <<"N", "Y">>, <<"B", "r", "o", "n", "x">>),
      [opportunity_id |-> <<"1">>]
        @@ HistoricalPlace(NaN, NaN, <<"Q", "u", "e", "e", "n", "s">>),
      [opportunity_id |-> <<"3">>]
        @@ HistoricalPlace(NaN, NaN, NaN) }

\* the sequences over S of at most n elements
SeqUpTo(S, n) == UNION {[1..k -> S] : k \in 0..n}

\* a table with one of its columns left out of the file
without_column(columns, rows, col) ==
    [columns |-> columns \ {col},
     rows |-> [i \in DOMAIN rows |-> [c \in columns \ {col} |-> rows[i][c]]]]

PrimaryFiles ==
    {File("missing", {}, <<>>), File("unreadable", {}, <<>>)}
    \cup {File("ok", PRIMARY_COLUMNS, rows) : rows \in SeqUpTo(PrimaryRows, MaxPrimaryRows)}
    \cup {[status |-> "ok"] @@ without_column(PRIMARY_COLUMNS, rows, col) :
            rows \in SeqUpTo(PrimaryRows, MaxPrimaryRows), col \in PRIMARY_COLUMNS}

HistoricalFiles ==
    {File("missing", {}, <<>>), File("unreadable", {}, <<>>)}
    \cup {File("ok", HISTORICAL_COLUMNS, rows) :
            rows \in SeqUpTo(HistoricalRows, MaxHistoricalRows)}
    \cup {[status |-> "ok"] @@ without_column(HISTORICAL_COLUMNS, rows, "Borough") :
            rows \in SeqUpTo(HistoricalRows, MaxHistoricalRows)}

(***************************************************************************)
(* One run of the script by a session that runs alone.  The top of the     *)
(* script ensures the feedback file and loads the catalogue; then the      *)
(* widgets are read, the search block runs and the result cards are drawn. *)
(* Every interaction runs the script again from the top.                   *)
(***************************************************************************)

NotRun ==
    [phase |-> "start", error |-> "", df |-> EmptyTable, search_query |-> <<>>,
     mood_input |-> NO_PREFERENCE, zipcode_input |-> <<>>, weather_filter |-> <<>>,
     results |-> <<>>, ratings |-> <<>>]

\* get_event_rating(event['event_id']) of the cards drawn, results.head(15)
card_ratings(file, results) ==
    [i \in 1..(IF Len(results) < DISPLAY_LIMIT THEN Len(results) ELSE DISPLAY_LIMIT) |->
        get_event_rating(file, results[i]["event_id"])]

\* ensure_feedback_csv() and df = load_volunteer_data() at module level; an
\* exception stops the script
LoadData ==
    /\ run.phase = "start"
    /\ LET loaded == load_volunteer_data(primary_csv, historical_csv)
       IN  run' = [NotRun EXCEPT !.phase = IF loaded.error # "" THEN "halted" ELSE "loaded",
                                 !.error = loaded.error,
                                 !.df = loaded.df]
    /\ feedback_csv' = ensure_feedback_csv(feedback_csv)
    /\ UNCHANGED <<primary_csv, historical_csv, now, pc, pending, local, recommendation,
                 session_state, sidebar>>

\* a search block that ranks the results by community feedback: the events
\* that have a rating are listed before those that have none
SearchBlock_rated_first(search_query, mood_input, zipcode_input, weather_filter) ==
    /\ run.phase = "loaded"
    /\ mood_input \in mood_options(run.df)
    /\ LET failure == IF search_query # <<>>
                      THEN search_error(run.df, search_query, mood_input,
                                        zipcode_input, weather_filter)
                      ELSE ""
           found == IF search_query # <<>> /\ failure = ""
                    THEN search(run.df, search_query, mood_input,
                                zipcode_input, weather_filter)
                    ELSE <<>>
           rated(r) == get_event_rating(feedback_csv, r["event_id"]) # <<>>
           results == SelectSeq(found, rated) \o SelectSeq(found, LAMBDA r : ~rated(r))
           error == IF failure # "" THEN failure ELSE display_error(run.df, results)
       IN  run' = [phase |-> IF error # "" THEN "halted" ELSE "shown",
                   error |-> error,
                   df |-> run.df,
                   search_query |-> search_query,
                   mood_input |-> mood_input,
                   zipcode_input |-> zipcode_input,
                   weather_filter |-> weather_filter,
                   results |-> results,
                   ratings |-> IF error # "" THEN <<>>
                               ELSE card_ratings(feedback_csv, results)]
    /\ UNCHANGED <<primary_csv, historical_csv, feedback_csv, now, pc, pending, local, recommendation,
                 session_state, sidebar>>

\* the widgets, the search block and the result cards
SearchBlock(search_query, mood_input, zipcode_input, weather_filter) ==
    /\ run.phase = "loaded"
    /\ mood_input \in mood_options(run.df)
    /\ LET failure == IF search_query # <<>>
                      THEN search_error(run.df, search_query, mood_input,
                                        zipcode_input, weather_filter)
                      ELSE ""
           results == IF search_query # <<>> /\ failure = ""
                      THEN search(run.df, search_query, mood_input,
                                  zipcode_input, weather_filter)
                      ELSE <<>>
           error == IF failure # "" THEN failure ELSE display_error(run.df, results)
       IN  run' = [phase |-> IF error # "" THEN "halted" ELSE "shown",
                   error |-> error,
                   df |-> run.df,
                   search_query |-> search_query,
                   mood_input |-> mood_input,
                   zipcode_input |-> zipcode_input,
                   weather_filter |-> weather_filter,
                   results |-> results,
                   ratings |-> IF error # "" THEN <<>>
                               ELSE card_ratings(feedback_csv, results)]
    /\ UNCHANGED <<primary_csv, historical_csv, feedback_csv, now, pc, pending, local, recommendation,
                 session_state, sidebar>>

\* the next interaction (or a reload of the page) starts the script again
Rerun ==
    /\ run.phase \in {"shown", "halted"}
    /\ run' = NotRun
    /\ UNCHANGED <<primary_csv, historical_csv, feedback_csv, now, pc, pending, local, recommendation,
                 session_state, sidebar>>

\* what the visitor of the loading scenarios types: nothing, or one word
LoadQueries == {<<>>, <<"g", "a", "r", "d", "e", "n">>}

\* the intentions the visitor of the loading scenarios may select
LoadMoods == {NO_PREFERENCE, GardenEvent["Mood/Intent"], TutoringEvent["Mood/Intent"]}

InitLoad ==
    /\ primary_csv \in PrimaryFiles
    /\ historical_csv \in HistoricalFiles
    /\ run = NotRun
    /\ feedback_csv = NoFeedbackFile
    /\ now = 0
    /\ pc = <<>>
    /\ pending = <<>>
    /\ local = <<>>
    /\ session_state = NewSession
    /\ sidebar = NoMessage
    /\ recommendation = NoRecommendation

NextLoad ==
    \/ LoadData
    \/ \E q \in LoadQueries, m \in LoadMoods : SearchBlock(q, m, <<>>, <<>>)
    \/ Rerun

SpecLoad == InitLoad /\ [][NextLoad]_vars

(***************************************************************************)
(* A session that runs alone on the sample catalogue: it searches, and it  *)
(* rates the events of the cards drawn.                                    *)
(***************************************************************************)

MaxClock == 3

\* st.slider("Rating:", 1, 5, 3)
RATING_MIN == 1

RATING_MAX == 5

Ratings == RATING_MIN..RATING_MAX

\* what a visitor leaves in the comment box: nothing, a word, a text that
\* reads as a missing value, a text that reads as a number
Comments == {<<>>, <<"o", "k">>, <<"N", "/", "A">>, <<"5">>}

SamplePrimary ==
    File("ok", PRIMARY_COLUMNS,
         << [opportunity_id |-> <<"1">>] @@ GardenEvent,
            [opportunity_id |-> <<"2">>] @@ TutoringEvent >>)

SampleHistorical ==
    File("ok", HISTORICAL_COLUMNS,
         << [opportunity_id |-> <<"1">>]
              @@ HistoricalPlace(<<"B", "r", "o", "n", "x">>, <<"N", "Y">>,
                                 <<"B", "r", "o", "n", "x">>) >>)

\* the event ids of the sample catalogue
SampleEventIds ==
    LET df == load_volunteer_data(SamplePrimary, SampleHistorical).df
    IN  {df.rows[i]["event_id"] : i \in DOMAIN df.rows}

\* what the visitor types: nothing, or a word of each of the two events
Queries ==
    { <<>>,
      <<"c", "o", "m", "m", "u", "n", "i", "t", "y", " ", "t", "u", "t", "o", "r">> }

\* the Submit Feedback button of card idx: store_feedback(event['event_id'],
\* rating, comment) at the instant `now`, then st.rerun(), which draws the
\* same cards with their ratings read again.  Every reading of the clock
\* returns a later instant.
SubmitFeedback(idx, rating, comment) ==
    /\ run.phase = "shown"
    /\ idx \in DOMAIN run.ratings
    /\ now < MaxClock
    /\ feedback_csv' = store_feedback(ensure_feedback_csv(feedback_csv),
                                      run.results[idx]["event_id"], rating, comment, now)
    /\ now' = now + 1
    /\ run' = [run EXCEPT !.ratings = card_ratings(feedback_csv', run.results)]
    /\ UNCHANGED <<primary_csv, historical_csv, pc, pending, local, recommendation,
                 session_state, sidebar>>

Init ==
    /\ primary_csv = SamplePrimary
    /\ historical_csv = SampleHistorical
    /\ run = NotRun
    /\ feedback_csv = NoFeedbackFile
    /\ now = 0
    /\ pc = <<>>
    /\ pending = <<>>
    /\ local = <<>>
    /\ session_state = NewSession
    /\ sidebar = NoMessage
    /\ recommendation = NoRecommendation

Next ==
    \/ LoadData
    \/ \E q \in Queries : SearchBlock(q, NO_PREFERENCE, <<>>, <<>>)
    \/ Rerun
    \/ \E idx \in 1..DISPLAY_LIMIT, rating \in Ratings, comment \in Comments :
         SubmitFeedback(idx, rating, comment)

Spec == Init /\ [][Next]_vars

(***************************************************************************)
(* Several sessions at once.  Streamlit runs the script of every session   *)
(* in a thread of its own, so the reads and writes of FEEDBACK_CSV by      *)
(* different sessions interleave; each read and each write of the whole    *)
(* file is one step.  The catalogue part of the script touches no shared   *)
(* state and is left out.                                                  *)
(***************************************************************************)

Sessions == {"a", "b"}

\* the ratings and comments the concurrent sessions submit
ConcurrentRatings == {RATING_MIN, RATING_MAX}

ConcurrentComments == {<<>>, <<"o", "k">>}

NoClick ==
    [clicked |-> FALSE, active |-> FALSE, event_id |-> <<>>, rating |-> RATING_MIN,
     comment |-> <<>>]

NoLocal == [df |-> <<>>, timestamp |-> 0]

\* the sessions inside store_feedback that have not read the clock yet
AwaitingStamp == {s \in DOMAIN pc : pc[s] \in {"start", "create", "run", "stamp"} /\ pending[s].active}

\* os.path.exists(FEEDBACK_CSV) in ensure_feedback_csv
EnsureCheck(s) ==
    /\ pc[s] = "start"
    /\ pc' = [pc EXCEPT ![s] = IF feedback_csv.exists THEN "run" ELSE "create"]
    /\ UNCHANGED <<primary_csv, historical_csv, run, feedback_csv, now, pending, local, recommendation,
                 session_state, sidebar>>

\* the to_csv of ensure_feedback_csv: an empty file is written
EnsureCreate(s) ==
    /\ pc[s] = "create"
    /\ feedback_csv' = [exists |-> TRUE, rows |-> <<>>]
    /\ pc' = [pc EXCEPT ![s] = "run"]
    /\ UNCHANGED <<primary_csv, historical_csv, run, now, pending, local, recommendation,
                 session_state, sidebar>>

\* the script draws the cards; no button of this run is pressed
Draw(s) ==
    /\ pc[s] = "run"
    /\ ~pending[s].active
    /\ pc' = [pc EXCEPT ![s] = "idle"]
    /\ UNCHANGED <<primary_csv, historical_csv, run, feedback_csv, now, pending, local, recommendation,
                 session_state, sidebar>>

\* the visitor presses Submit Feedback on the card of event_id: the script
\* runs again from the top with this button pressed
Click(s, event_id, rating, comment) ==
    /\ pc[s] = "idle"
    /\ now + Cardinality(AwaitingStamp) < MaxClock
    /\ pending' = [pending EXCEPT ![s] = [clicked |-> TRUE, active |-> TRUE,
                                          event_id |-> event_id, rating |-> rating,
                                          comment |-> comment]]
    /\ pc' = [pc EXCEPT ![s] = "start"]
    /\ UNCHANGED <<primary_csv, historical_csv, run, feedback_csv, now, local, recommendation,
                 session_state, sidebar>>

\* df = load_feedback() in store_feedback
LoadFeedback(s) ==
    /\ pc[s] = "run"
    /\ pending[s].active
    /\ local' = [local EXCEPT ![s] = [df |-> load_feedback(feedback_csv), timestamp |-> 0]]
    /\ pc' = [pc EXCEPT ![s] = "stamp"]
    /\ UNCHANGED <<primary_csv, historical_csv, run, feedback_csv, now, pending, recommendation,
                 session_state, sidebar>>

\* timestamp = datetime.utcnow().isoformat()
Stamp(s) ==
    /\ pc[s] = "stamp"
    /\ local' = [local EXCEPT ![s].timestamp = now]
    /\ now' = now + 1
    /\ pc' = [pc EXCEPT ![s] = "save"]
    /\ UNCHANGED <<primary_csv, historical_csv, run, feedback_csv, pending, recommendation,
                 session_state, sidebar>>

\* a save that reads the file again and applies the submission to what it
\* holds now, not to the DataFrame read earlier
saved_file_rereading(file, df, event_id, rating, comment, timestamp) ==
    save_feedback(updated_feedback(load_feedback(file), event_id, rating, comment, timestamp))

\* the rest of store_feedback: the DataFrame read earlier is updated and
\* written over the file, whatever the file holds by now
saved_file(file, df, event_id, rating, comment, timestamp) ==
    save_feedback(updated_feedback(df, event_id, rating, comment, timestamp))

\* the update of df and save_feedback(df), then st.rerun()
SaveFeedback(s) ==
    /\ pc[s] = "save"
    /\ feedback_csv' = saved_file(feedback_csv, local[s].df, pending[s].event_id,
                                  pending[s].rating, pending[s].comment,
                                  local[s].timestamp)
    /\ pending' = [pending EXCEPT ![s].active = FALSE]
    /\ pc' = [pc EXCEPT ![s] = "start"]
    /\ UNCHANGED <<primary_csv, historical_csv, run, now, local, recommendation,
                 session_state, sidebar>>

InitConcurrent ==
    /\ primary_csv = SamplePrimary
    /\ historical_csv = SampleHistorical
    /\ run = NotRun
    /\ feedback_csv = NoFeedbackFile
    /\ now = 0
    /\ pc = [s \in Sessions |-> "start"]
    /\ pending = [s \in Sessions |-> NoClick]
    /\ local = [s \in Sessions |-> NoLocal]
    /\ session_state = NewSession
    /\ sidebar = NoMessage
    /\ recommendation = NoRecommendation

NextConcurrent ==
    \E s \in Sessions :
        \/ EnsureCheck(s)
        \/ EnsureCreate(s)
        \/ Draw(s)
        \/ \E e \in SampleEventIds, r \in ConcurrentRatings, c \in ConcurrentComments :
             Click(s, e, r, c)
        \/ LoadFeedback(s)
        \/ Stamp(s)
        \/ SaveFeedback(s)

SpecConcurrent == InitConcurrent /\ [][NextConcurrent]_vars

(***************************************************************************)
(* The rating shown on a card, for any content of a feedback file found on *)
(* disk: the file may hold several records for one event.                  *)
(***************************************************************************)

MaxFeedbackRows == 3

\* the files found on disk: any rows for the events of the sample catalogue
FoundFeedbackFiles ==
    {[exists |-> TRUE, rows |-> rows] :
        rows \in SeqUpTo([event_id : SampleEventIds, rating : Ratings,
                          comment : {<<>>}, timestamp : {0}],
                         MaxFeedbackRows)}

InitRating ==
    /\ primary_csv = SamplePrimary
    /\ historical_csv = SampleHistorical
    /\ run = NotRun
    /\ feedback_csv \in FoundFeedbackFiles
    /\ now = 0
    /\ pc = <<>>
    /\ pending = <<>>
    /\ local = <<>>
    /\ session_state = NewSession
    /\ sidebar = NoMessage
    /\ recommendation = NoRecommendation

NextRating ==
    \/ LoadData
    \/ \E q \in Queries : SearchBlock(q, NO_PREFERENCE, <<>>, <<>>)
    \/ Rerun

SpecRating == InitRating /\ [][NextRating]_vars

(***************************************************************************)
(* Properties of the feedback store with one writer, checked under Spec.   *)
(***************************************************************************)

\* the records the file holds for an event, in file order
RecordsOf(file, e) == SelectSeq(file.rows, LAMBDA row : row.event_id = e)

\* C1: a submission for an event that already has a record (left by an
\* earlier submission) leaves exactly one record for that event, and the
\* record carries the rating, the comment and the timestamp of this
\* submission.
C1_UpdateByKey ==
    [][\A idx \in 1..DISPLAY_LIMIT, rating \in Ratings, comment \in Comments :
          (/\ SubmitFeedback(idx, rating, comment)
           /\ RecordsOf(feedback_csv, run.results[idx]["event_id"]) # <<>>)
          => RecordsOf(feedback_csv', run.results[idx]["event_id"])
               = << [event_id |-> run.results[idx]["event_id"], rating |-> rating,
                     comment |-> comment, timestamp |-> now] >>]_vars

\* an earlier row of the file carries a later timestamp than a later row: its
\* event was rated, another event was rated, and the first was rated again
C1_Witness ==
    \E i, j \in DOMAIN feedback_csv.rows :
        /\ i < j
        /\ feedback_csv.rows[i].timestamp > feedback_csv.rows[j].timestamp

\* C2: from an empty store, whatever a single writer submits, the store
\* never holds two records with the same event_id.
C2_OneRecordPerEvent ==
    \A i, j \in DOMAIN feedback_csv.rows :
        i # j => feedback_csv.rows[i].event_id # feedback_csv.rows[j].event_id

\* every event of the catalogue has been rated, and MaxClock submissions
\* have been made, so that one of them was rated more than once
C2_Witness ==
    /\ {feedback_csv.rows[i].event_id : i \in DOMAIN feedback_csv.rows} = SampleEventIds
    /\ now = MaxClock
    /\ now > Cardinality(SampleEventIds)

(***************************************************************************)
(* Properties of the rating shown, checked under SpecRating.               *)
(***************************************************************************)

\* the ratings of the records the file holds for an event
RatingsOf(file, e) ==
    [i \in DOMAIN RecordsOf(file, e) |-> RecordsOf(file, e)[i].rating]

Abs(x) == IF x < 0 THEN -x ELSE x

C4_LastWriterWins ==
    [][\A s \in DOMAIN pc :
          SaveFeedback(s)
          => RecordsOf(feedback_csv', pending[s].event_id)
               = << [event_id |-> pending[s].event_id, rating |-> pending[s].rating,
                     comment |-> pending[s].comment,
                     timestamp |-> local[s].timestamp] >>]_vars

\* the session has been through store_feedback and is not inside it now
Completed(s) == pending[s].clicked /\ ~pending[s].active

HasRecord(rows, e) == \E i \in DOMAIN rows : rows[i].event_id = e

\* two sessions rated the same event differently, both read the store before
\* either wrote, both are done, and the store holds one record for the event
C4_Witness ==
    \E s, t \in DOMAIN pc :
        /\ s # t
        /\ Completed(s) /\ Completed(t)
        /\ pending[s].event_id = pending[t].event_id
        /\ pending[s].rating # pending[t].rating
        /\ ~HasRecord(local[s].df, pending[s].event_id)
        /\ ~HasRecord(local[t].df, pending[t].event_id)
        /\ local[s].timestamp < local[t].timestamp
        /\ Len(RecordsOf(feedback_csv, pending[s].event_id)) = 1
        /\ RecordsOf(feedback_csv, pending[s].event_id)[1].rating = pending[s].rating

\* C5: when two sessions have each completed a submission, for two distinct
\* events, and each had read a store without the other's record, the store
\* holds the record of only one of the two: the other submission is lost.
C5_LostUpdate ==
    \A s, t \in DOMAIN pc :
        (/\ s # t
         /\ Completed(s) /\ Completed(t)
         /\ pending[s].event_id # pending[t].event_id
         /\ ~HasRecord(local[s].df, pending[t].event_id)
         /\ ~HasRecord(local[t].df, pending[s].event_id))
        => (HasRecord(feedback_csv.rows, pending[s].event_id)
              # HasRecord(feedback_csv.rows, pending[t].event_id))

\* both sessions are done, each rated an event of its own, and the store
\* holds a single record
C5_Witness ==
    \E s, t \in DOMAIN pc :
        /\ s # t
        /\ Completed(s) /\ Completed(t)
        /\ pc[s] = "idle" /\ pc[t] = "idle"
        /\ pending[s].event_id # pending[t].event_id
        /\ Len(feedback_csv.rows) = 1
        /\ feedback_csv.rows[1].event_id = pending[t].event_id

(***************************************************************************)
(* Properties of the catalogue loader, checked under SpecLoad.             *)
(***************************************************************************)

\* the script has loaded a catalogue in this run
Loaded == run.phase \in {"loaded", "shown"}

\* the historical file holds a row for this opportunity
HasHistoricalRow(opportunity_id) ==
    \E j \in DOMAIN historical_csv.rows :
        historical_csv.rows[j]["opportunity_id"] = opportunity_id

\* C6: every row of the catalogue whose opportunity_id has no row in the
\* historical file has location_display "New York, NY".
C6_UnmatchedRowsGetPlaceholder ==
    Loaded =>
        \A i \in DOMAIN run.df.rows :
            ~HasHistoricalRow(run.df.rows[i]["opportunity_id"])
                => run.df.rows[i]["location_display"] = NEW_YORK_NY

\* C7: when the enriched file is complete and only the historical file is
\* missing, the load completes with one row per row of the enriched file,
\* each with a location_display.
C7_MissingHistoricalIsNonFatal ==
    (/\ primary_csv.status = "ok"
     /\ primary_csv.columns = PRIMARY_COLUMNS
     /\ historical_csv.status = "missing"
     /\ run.phase # "start")
        => /\ Loaded
           /\ Len(run.df.rows) = Len(primary_csv.rows)
           /\ \A i \in DOMAIN run.df.rows :
                 /\ run.df.rows[i]["title"] = Str(fillna(primary_csv).rows[i]["title"])
                 /\ "location_display" \in DOMAIN run.df.rows[i]

\* C8: when the enriched file is missing or unreadable, the run ends in the
\* error raised by reading it and the script halts there: the search
\* interface is never reached, with an empty catalogue or any other.
C8_PrimaryUnavailableHalts ==
    primary_csv.status # "ok" =>
        /\ run.phase \in {"start", "halted"}
        /\ run.phase = "halted" =>
              /\ run.error \in {"FileNotFoundError", "ParserError"}
              /\ run.df = EmptyTable
              /\ run.results = <<>>

C8_Witness ==
    /\ primary_csv.status = "missing"
    /\ run.phase = "halted"
    /\ run.error = "FileNotFoundError"

\* the rows of the enriched file have pairwise distinct opportunity ids
DistinctOpportunityIds ==
    \A i, j \in DOMAIN primary_csv.rows :
        i # j => primary_csv.rows[i]["opportunity_id"] # primary_csv.rows[j]["opportunity_id"]

\* C9: when the opportunity ids of the enriched file are pairwise distinct,
\* the catalogue has exactly one row per row of the enriched file and no two
\* of its rows share an event_id.
C9_EventIdUnique ==
    (Loaded /\ DistinctOpportunityIds) =>
        /\ Len(run.df.rows) = Len(primary_csv.rows)
        /\ \A i, j \in DOMAIN run.df.rows :
              i # j => run.df.rows[i]["event_id"] # run.df.rows[j]["event_id"]

\* the text columns the loader expects of the enriched file
EXPECTED_TEXT_COLUMNS == {"title", "description", "org_title", "Topical Theme", "Mood/Intent"}

\* C10: when the enriched file lacks expected text columns (and both files
\* are otherwise complete), the script does not fail and the catalogue holds
\* each of those columns, filled with empty strings.
C10_MissingTextColumnsBackfilled ==
    (/\ primary_csv.status = "ok"
     /\ "opportunity_id" \in primary_csv.columns
     /\ historical_csv.status = "ok"
     /\ HISTORICAL_COLUMNS \subseteq historical_csv.columns
     /\ run.phase # "start")
        => /\ run.phase # "halted"
           /\ \A c \in EXPECTED_TEXT_COLUMNS \ primary_csv.columns :
                 /\ c \in run.df.columns
                 /\ \A i \in DOMAIN run.df.rows : run.df.rows[i][c] = <<>>

(***************************************************************************)
(* Properties of the derived summary, checked under SpecSummary: the       *)
(* catalogue is loaded from an enriched file whose one event has a         *)
(* description of any length up to MaxDescriptionLen, or none.             *)
(***************************************************************************)

MaxDescriptionLen == 152

DESCRIPTION_LETTERS == <<"a", "b", " ", "c", "d", "e", "f">>

\* a description of n characters
Description(n) == [i \in 1..n |-> DESCRIPTION_LETTERS[(i % 7) + 1]]

SummaryFiles ==
    {File("ok", PRIMARY_COLUMNS,
          << [[opportunity_id |-> <<"1">>] @@ GardenEvent EXCEPT !.description = d] >>) :
        d \in {Description(n) : n \in 0..MaxDescriptionLen} \cup {NaN}}

SummaryQueries == {<<>>, <<"g", "a", "r", "d", "e", "n">>, <<"a", "b", " ", "c">>}

InitSummary ==
    /\ primary_csv \in SummaryFiles
    /\ historical_csv = SampleHistorical
    /\ run = NotRun
    /\ feedback_csv = NoFeedbackFile
    /\ now = 0
    /\ pc = <<>>
    /\ pending = <<>>
    /\ local = <<>>
    /\ session_state = NewSession
    /\ sidebar = NoMessage
    /\ recommendation = NoRecommendation

NextSummary ==
    \/ LoadData
    \/ \E q \in SummaryQueries : SearchBlock(q, NO_PREFERENCE, <<>>, <<>>)
    \/ Rerun

SpecSummary == InitSummary /\ [][NextSummary]_vars

\* the description of the enriched file's row i as the catalogue holds it
DescriptionText(i) ==
    IF primary_csv.rows[i]["description"] = NaN THEN <<>>
    ELSE primary_csv.rows[i]["description"]

\* C11: the short_description of every event is the first 150 characters of
\* its description followed by "...", and the whole description followed by
\* "..." when the description has at most 150 characters.
C11_ShortDescriptionIsSlicePlusEllipsis ==
    Loaded =>
        /\ Len(run.df.rows) = Len(primary_csv.rows)
        /\ \A i \in DOMAIN run.df.rows :
              LET d == DescriptionText(i)
                  s == run.df.rows[i]["short_description"]
                  n == IF Len(d) < 150 THEN Len(d) ELSE 150
              IN  /\ run.df.rows[i]["description"] = d
                  /\ Len(s) = n + 3
                  /\ \A k \in 1..n : s[k] = d[k]
                  /\ \A k \in (n + 1)..(n + 3) : s[k] = "."
                  /\ (Len(d) <= 150 => s = d \o <<".", ".", ".">>)

\* an event whose description is longer than 150 characters has been loaded:
\* its summary has 153 characters and drops the rest of the description
C11_Witness ==
    /\ Loaded
    /\ \E i \in DOMAIN run.df.rows :
          /\ Len(run.df.rows[i]["description"]) > 150
          /\ Len(run.df.rows[i]["short_description"]) = 153
          /\ run.df.rows[i]["short_description"][150] = run.df.rows[i]["description"][150]

(***************************************************************************)
(* The search block on a catalogue of five events, for the queries and the *)
(* filter settings a visitor may enter.                                    *)
(***************************************************************************)

\* an event whose text holds "Tutoring" and not "kids"
HomeworkEvent ==
    [title |-> <<"H", "o", "m", "e", "w", "o", "r", "k", " ", "C", "l", "u", "b">>,
     description |-> <<"T", "u", "t", "o", "r", "i", "n", "g", " ", "a", "f", "t", "e", "r", " ", "s", "c", "h", "o", "o", "l">>,
     org_title |-> <<"N", "Y", "C", " ", "E", "d", "u", "c", "a", "t", "i", "o", "n", " ", "A", "l", "l", "i", "a", "n", "c", "e">>]
    @@ ("Topical Theme" :> <<"E", "d", "u", "c", "a", "t", "i", "o", "n">>)
    @@ ("Mood/Intent" :> <<"S", "k", "i", "l", "l", " ", "B", "u", "i", "l", "d", "i", "n", "g">>)
    @@ ("Postcode" :> <<"1", "0", "0", "2", "7">>)
    @@ ("Weather Badge" :> <<"I", "n", "d", "o", "o", "r", "s">>)

\* two events whose intentions differ by a pair of parentheses
ParkEvent ==
    [title |-> <<"P", "a", "r", "k", " ", "C", "l", "e", "a", "n", "u", "p">>,
     description |-> <<"C", "l", "e", "a", "n", " ", "t", "h", "e", " ", "p", "a", "r", "k", " ", "p", "a", "t", "h", "s">>,
     org_title |-> <<"P", "a", "r", "k", "s", " ", "F", "r", "i", "e", "n", "d", "s">>]
    @@ ("Topical Theme" :> <<"E", "n", "v", "i", "r", "o", "n", "m", "e", "n", "t">>)
    @@ ("Mood/Intent" :> <<"O", "u", "t", "d", "o", "o", "r", " ", "(", "A", "c", "t", "i", "v", "e", ")">>)
    @@ ("Postcode" :> <<"1", "0", "0", "2", "5">>)
    @@ ("Weather Badge" :> <<"O", "u", "t", "d", "o", "o", "r", "s">>)

TrailEvent ==
    [title |-> <<"T", "r", "a", "i", "l", " ", "W", "a", "l", "k">>,
     description |-> <<"W", "a", "l", "k", " ", "t", "h", "e", " ", "p", "a", "r", "k", " ", "t", "r", "a", "i", "l">>,
     org_title |-> <<"P", "a", "r", "k", "s", " ", "F", "r", "i", "e", "n", "d", "s">>]
    @@ ("Topical Theme" :> <<"E", "n", "v", "i", "r", "o", "n", "m", "e", "n", "t">>)
    @@ ("Mood/Intent" :> <<"O", "u", "t", "d", "o", "o", "r", " ", "A", "c", "t", "i", "v", "e">>)
    @@ ("Postcode" :> <<"1", "0", "0", "3", "1">>)
    @@ ("Weather Badge" :> <<"O", "u", "t", "d", "o", "o", "r", "s">>)

SearchPrimary ==
    File("ok", PRIMARY_COLUMNS,
         << [opportunity_id |-> <<"1">>] @@ GardenEvent,
            [opportunity_id |-> <<"2">>] @@ TutoringEvent,
            [opportunity_id |-> <<"3">>] @@ HomeworkEvent,
            [opportunity_id |-> <<"4">>] @@ ParkEvent,
            [opportunity_id |-> <<"5">>] @@ TrailEvent >>)

\* what the visitor types: nothing, a word, a word in capitals, two words of
\* two events, a phrase in parentheses, a smiley, two words after a full stop
SearchQueries ==
    { <<>>,
      <<"p", "a", "r", "k">>,
      <<"K", "i", "d", "s">>,
      <<"c", "o", "m", "m", "u", "n", "i", "t", "y", " ", "t", "u", "t", "o", "r">>,
      <<"(", "p", "a", "r", "k", " ", "w", "a", "l", "k", ")">>,
      <<":", ")">>,
      <<"p", "a", "r", "k", ".", " ", "w", "a", "l", "k">> }

\* the intentions of the selectbox for this catalogue
SearchMoods == mood_options(fillna(SearchPrimary))

\* what the visitor types for a ZIP code: nothing, a prefix of some
\* postcodes, a prefix of none
SearchZipcodes == {<<>>, <<"1", "0", "0">>, <<"9", "9", "9">>}

InitSearch ==
    /\ primary_csv = SearchPrimary
    /\ historical_csv = SampleHistorical
    /\ run = NotRun
    /\ feedback_csv = NoFeedbackFile
    /\ now = 0
    /\ pc = <<>>
    /\ pending = <<>>
    /\ local = <<>>
    /\ session_state = NewSession
    /\ sidebar = NoMessage
    /\ recommendation = NoRecommendation

NextSearch ==
    \/ LoadData
    \/ \E q \in SearchQueries, m \in SearchMoods, z \in SearchZipcodes, w \in WEATHER_OPTIONS :
         SearchBlock(q, m, z, w)
    \/ Rerun

SpecSearch == InitSearch /\ [][NextSearch]_vars

(***************************************************************************)
(* Properties of the search block, checked under SpecSearch.  A text       *)
(* "holds" another when the other occurs in it character for character.    *)
(***************************************************************************)

\* t occurs in s, character for character
Holds(s, t) == \E i \in 0..(Len(s) - Len(t)) : SubSeq(s, i + 1, i + Len(t)) = t

\* the script got as far as the search block in this run
Searched == run.phase \in {"shown", "halted"} /\ run.df # EmptyTable

\* the row passes the filters that are set
PassesFilters(r) ==
    /\ run.mood_input # NO_PREFERENCE => Holds(lower(r["Mood/Intent"]), lower(run.mood_input))
    /\ run.zipcode_input # <<>> =>
          Holds(SubSeq(r["Postcode"], 1, Len(run.zipcode_input)), run.zipcode_input)
    /\ run.weather_filter # <<>> =>
          Holds(lower(r["Weather Badge"]), lower(run.weather_filter))

\* C12: for a non-blank query and a selected intention, every event of the
\* result holds the selected value in its Mood/Intent field, whatever the
\* case of the letters; and when the filters pass no event, the result is
\* empty and no error is raised.
C12_ResultsHoldSelectedMood ==
    (Searched /\ run.search_query # <<>> /\ run.mood_input # NO_PREFERENCE) =>
        /\ \A i \in DOMAIN run.results :
              Holds(lower(run.results[i]["Mood/Intent"]), lower(run.mood_input))
        /\ (\A j \in DOMAIN run.df.rows : ~PassesFilters(run.df.rows[j]))
              => (run.results = <<>> /\ run.error = "")

\* C13: a search with an empty query and some filter set returns all the
\* events that pass the filters.
C13_BlankQueryReturnsFilteredSet ==
    (/\ Searched
     /\ run.search_query = <<>>
     /\ (run.mood_input # NO_PREFERENCE \/ run.zipcode_input # <<>> \/ run.weather_filter # <<>>))
        => /\ run.error = ""
           /\ run.results = SelectSeq(run.df.rows, PassesFilters)

(***************************************************************************)
(* Determinism of the search, checked under Spec: the catalogue is the     *)
(* sample catalogue throughout, while the feedback store and the history   *)
(* of searches and submissions vary.                                       *)
(***************************************************************************)

\* the event ids of the result, in order
ResultIds == [i \in DOMAIN run.results |-> run.results[i]["event_id"]]

\* the one list each query of Queries gives on the sample catalogue: nothing
\* for no query, the garden event then the tutoring event for
\* "community tutor"
SampleResultIds(search_query) ==
    IF search_query = <<>> THEN <<>>
    ELSE << <<"1", "_", "C", "o", "m", "m", "u", "n", "i", "t", "y", " ">>,
            <<"2", "_", "Y", "o", "u", "t", "h", " ", "T", "u", "t", "o">> >>

\* C14: on a fixed catalogue, with fixed filter settings, every execution of
\* the search for a query lists the same events in the same order, whatever
\* the feedback store holds and whatever was searched or submitted before.
C14_SearchIsDeterministic ==
    run.phase = "shown" => ResultIds = SampleResultIds(run.search_query)

\* a search whose second event has been rated and whose first has not, after
\* two submissions
C14_Witness ==
    /\ run.phase = "shown"
    /\ Len(run.results) = 2
    /\ now >= 2
    /\ run.ratings[1] = <<>>
    /\ run.ratings[2] # <<>>

(***************************************************************************)
(* Query expansion, checked under SpecSearch.                              *)
(***************************************************************************)

\* a configured keyword and one of its synonyms
KEYWORD_KIDS == <<"k", "i", "d", "s">>

SYNONYM_TUTORING == <<"t", "u", "t", "o", "r", "i", "n", "g">>

\* the title or the description of the row holds the text, whatever the case
\* of the letters
TextHolds(r, t) == Holds(lower(r["title"]), t) \/ Holds(lower(r["description"]), t)

InResults(r) == \E i \in DOMAIN run.results : run.results[i] = r

\* C15: when the query holds the keyword "kids", the result also lists the
\* events (among those that pass the filters) whose text holds the synonym
\* "tutoring", and every event whose text holds the query itself is listed.
C15_QueryIsExpandedWithSynonyms ==
    (Searched /\ Holds(lower(run.search_query), KEYWORD_KIDS)) =>
        /\ run.error = ""
        /\ \A j \in DOMAIN run.df.rows :
              (PassesFilters(run.df.rows[j]) /\ TextHolds(run.df.rows[j], SYNONYM_TUTORING))
                 => InResults(run.df.rows[j])
        /\ \A j \in DOMAIN run.df.rows :
              (PassesFilters(run.df.rows[j]) /\ TextHolds(run.df.rows[j], lower(run.search_query)))
                 => InResults(run.df.rows[j])

(***************************************************************************)
(* The recommendation engine, item to item.  streamlit_app.py holds no     *)
(* recommendation engine; similar_to is modelled from its contract:        *)
(* it reads row event_index of the similarity matrix, excludes the event's *)
(* own index, sorts descending by similarity and returns the top k, and    *)
(* returns nothing when event_index is out of the matrix's bounds.         *)
(* Events are indexed from 0; similarities are held in tenths.             *)
(***************************************************************************)

MaxEvents == 3

SIMILARITIES == {0, 5, 10}

\* the symmetric matrices of at most MaxEvents events whose diagonal is 1.0
SimilarityMatrices ==
    UNION {{[i \in 1..n |-> [j \in 1..n |->
                IF i = j THEN 10 ELSE IF i < j THEN half[<<i, j>>] ELSE half[<<j, i>>]]] :
               half \in [{pair \in (1..n) \X (1..n) : pair[1] < pair[2]} -> SIMILARITIES]} :
           n \in 0..MaxEvents}

\* the pairs sorted descending by similarity; equal similarities keep their
\* order
RECURSIVE sort_descending(_)
sort_descending(pairs) ==
    IF pairs = <<>> THEN <<>>
    ELSE LET top == CHOOSE i \in DOMAIN pairs :
                        /\ \A j \in DOMAIN pairs : pairs[j][2] <= pairs[i][2]
                        /\ \A j \in 1..(i - 1) : pairs[j][2] < pairs[i][2]
         IN  <<pairs[top]>>
             \o sort_descending(SubSeq(pairs, 1, top - 1) \o SubSeq(pairs, top + 1, Len(pairs)))

\* an engine that ranks the whole row, the event's own entry included
similar_to_including_self(event_index, matrix, k) ==
    IF event_index \notin 0..(Len(matrix) - 1) THEN <<>>
    ELSE LET row == matrix[event_index + 1]
         IN  Take(sort_descending([j \in DOMAIN row |-> <<j - 1, row[j]>>]), k)

\* similar_to(event_index, matrix, k): the ranked list of (event, similarity)
similar_to(event_index, matrix, k) ==
    IF event_index \notin 0..(Len(matrix) - 1) THEN <<>>
    ELSE LET row == matrix[event_index + 1]
             others == SelectSeq([j \in DOMAIN row |-> <<j - 1, row[j]>>],
                                 LAMBDA pair : pair[1] # event_index)
         IN  Take(sort_descending(others), k)

\* one call of the engine
Recommend ==
    /\ ~recommendation.called
    /\ recommendation' =
          [recommendation EXCEPT
              !.called = TRUE,
              !.result = similar_to(recommendation.event_index, recommendation.matrix,
                                    recommendation.k)]
    /\ UNCHANGED <<primary_csv, historical_csv, run, feedback_csv, now, pc, pending, local,
                 session_state, sidebar>>

InitSimilar ==
    /\ primary_csv = SamplePrimary
    /\ historical_csv = SampleHistorical
    /\ run = NotRun
    /\ feedback_csv = NoFeedbackFile
    /\ now = 0
    /\ pc = <<>>
    /\ pending = <<>>
    /\ local = <<>>
    /\ session_state = NewSession
    /\ sidebar = NoMessage
    /\ recommendation \in
          [called : {FALSE}, event_index : 0..MaxEvents, matrix : SimilarityMatrices,
           k : 0..MaxEvents, result : {<<>>}]

NextSimilar == Recommend

SpecSimilar == InitSimilar /\ [][NextSimilar]_vars

\* C16: whatever the matrix, the index and k, the result of
\* similar_to(i, matrix, k) holds no entry for index i.
C16_SelfExcluded ==
    recommendation.called =>
        \A n \in DOMAIN recommendation.result :
            recommendation.result[n][1] # recommendation.event_index

\* the engine was asked for as many events as the matrix holds, for an event
\* of the matrix whose row holds another entry of similarity 1.0, and
\* returned all the others
C16_Witness ==
    /\ recommendation.called
    /\ Len(recommendation.matrix) = MaxEvents
    /\ recommendation.event_index < MaxEvents
    /\ recommendation.k = MaxEvents
    /\ Len(recommendation.result) = MaxEvents - 1
    /\ recommendation.result[1][2] = 10

(***************************************************************************)
(* Further properties of the feedback store with one writer, checked under *)
(* Spec.                                                                   *)
(***************************************************************************)

\* C17: whatever is submitted through the rating form, every record of the
\* store has an integer rating from 1 to 5, and every rating shown on a card
\* is absent or lies between 1.00 and 5.00.
C17_RatingsInRange ==
    /\ \A i \in DOMAIN feedback_csv.rows :
          feedback_csv.rows[i].rating \in Int /\ feedback_csv.rows[i].rating \in 1..5
    /\ \A i \in DOMAIN run.ratings :
          run.ratings[i] = <<>> \/ (run.ratings[i][1] >= 100 /\ run.ratings[i][1] <= 500)

\* the two ends of the slider are in the store and on the cards
C17_Witness ==
    /\ run.phase = "shown"
    /\ \E i, j \in DOMAIN feedback_csv.rows :
          feedback_csv.rows[i].rating = 1 /\ feedback_csv.rows[j].rating = 5
    /\ \E i, j \in DOMAIN run.ratings : run.ratings[i] = <<100>> /\ run.ratings[j] = <<500>>

\* some card's Submit Feedback button is handled in this step
Submitting ==
    \E idx \in 1..DISPLAY_LIMIT, rating \in Ratings, comment \in Comments :
        SubmitFeedback(idx, rating, comment)

\* C18: the rating of an event is absent until the event is rated; a
\* submission makes it the rating just submitted, whatever was submitted for
\* the event before, and leaves the rating of every other event as it was;
\* no other step changes any rating.
C18_RatingIsMostRecent ==
    [][/\ (now = 0 => \A e \in SampleEventIds : get_event_rating(feedback_csv, e) = <<>>)
       /\ \A idx \in 1..DISPLAY_LIMIT, rating \in Ratings, comment \in Comments :
             SubmitFeedback(idx, rating, comment) =>
                /\ run'.ratings[idx] = <<100 * rating>>
                /\ \A e \in SampleEventIds :
                      get_event_rating(feedback_csv', e) =
                         IF e = run.results[idx]["event_id"] THEN <<100 * rating>>
                         ELSE get_event_rating(feedback_csv, e)
       /\ ~Submitting =>
             \A e \in SampleEventIds :
                 get_event_rating(feedback_csv', e) = get_event_rating(feedback_csv, e)]_vars

\* one event has been rated MaxClock times: the store holds its one record,
\* left by the last submission, and the card shows that record's rating
C18_Witness ==
    /\ run.phase = "shown"
    /\ now = MaxClock
    /\ Len(feedback_csv.rows) = 1
    /\ feedback_csv.rows[1].timestamp = MaxClock - 1
    /\ \E i \in DOMAIN run.ratings :
          /\ run.results[i]["event_id"] = feedback_csv.rows[1].event_id
          /\ run.ratings[i] = <<100 * feedback_csv.rows[1].rating>>

\* the records of the file for the events other than e
OtherRecords(file, e) == {file.rows[i] : i \in {j \in DOMAIN file.rows : file.rows[j].event_id # e}}

\* C19: a submission for an event leaves every record of every other event
\* in the store with the same rating, comment and timestamp, adds none and
\* removes none; the number of records grows by one when the event had no
\* record and stays the same otherwise.
C19_OnlyTheEventsRecordChanges ==
    [][\A idx \in 1..DISPLAY_LIMIT, rating \in Ratings, comment \in Comments :
          SubmitFeedback(idx, rating, comment) =>
             LET e == run.results[idx]["event_id"]
             IN  /\ OtherRecords(feedback_csv', e) = OtherRecords(feedback_csv, e)
                 /\ Len(feedback_csv'.rows) =
                       Len(feedback_csv.rows)
                         + (IF RecordsOf(feedback_csv, e) = <<>> THEN 1 ELSE 0)]_vars

(***************************************************************************)
(* ensure_feedback_csv with concurrent sessions, checked under             *)
(* SpecConcurrent.                                                         *)
(***************************************************************************)

\* C20: ensure_feedback_csv leaves a store that exists as it is, with all its
\* records, and makes an empty store of one that does not exist.
C20_EnsureKeepsStoredRecords ==
    [][\A s \in DOMAIN pc :
          (EnsureCheck(s) \/ EnsureCreate(s)) =>
             IF feedback_csv.exists
             THEN feedback_csv' = feedback_csv
             ELSE feedback_csv' \in {feedback_csv, [exists |-> TRUE, rows |-> <<>>]}]_vars

(***************************************************************************)
(* The priority of the location fields, checked under SpecLoad.            *)
(***************************************************************************)

\* the cell holds a value, and the value is not the empty text
PresentAndNonEmpty(v) == v # NaN /\ v # None /\ v # <<>>

\* C21: location_display of every row of the catalogue is
\* "<locality>, <region>" when the row's locality is present and non-empty,
\* else "<Borough>, NY" when its Borough is present and non-empty, else
\* "New York, NY"; it is never empty and never made of a missing value.
C21_LocationPriority ==
    Loaded =>
        \A i \in DOMAIN run.df.rows :
            LET row == run.df.rows[i]
                region == IF PresentAndNonEmpty(row["region"]) THEN row["region"] ELSE <<>>
            IN  /\ row["location_display"] =
                      IF PresentAndNonEmpty(row["locality"])
                      THEN row["locality"] \o <<",", " ">> \o region
                      ELSE IF PresentAndNonEmpty(row["Borough"])
                           THEN row["Borough"] \o <<",", " ", "N", "Y">>
                           ELSE <<"N", "e", "w", " ", "Y", "o", "r", "k", ",", " ", "N", "Y">>
                /\ row["location_display"] # <<>>

(***************************************************************************)
(* The login section of the sidebar, drawn at the end of every script run  *)
(* that gets that far.  A press of one of its buttons runs the script      *)
(* again, which draws the same cards and then handles the button.          *)
(***************************************************************************)

NEW_USER == <<"N", "e", "w", " ", "U", "s", "e", "r">>

PLEASE_ENTER_CREDENTIALS == "Please enter credentials"

WELCOME_BACK == "Welcome back"

\* st.session_state[key] = value
set_state(state, key, value) ==
    [k \in DOMAIN state \cup {key} |-> IF k = key THEN value ELSE state[k]]

\* if 'logged_in' not in st.session_state: st.session_state.logged_in = False
with_logged_in(state) ==
    IF "logged_in" \in DOMAIN state THEN state ELSE set_state(state, "logged_in", FALSE)

\* st.success(f"Welcome back, {st.session_state.get('username', 'User')}!")
welcome_back(state) ==
    <<WELCOME_BACK, IF "username" \in DOMAIN state THEN state["username"]
                    ELSE <<"U", "s", "e", "r">> >>

\* the sidebar of a run in which no button is pressed
sidebar_message(state) == IF state["logged_in"] THEN welcome_back(state) ELSE NoMessage

\* a test that lets any username in, with or without a password
credentials_accepted_without_password(username, password) == username # <<>>

\* if username and password
credentials_accepted(username, password) == username # <<>> /\ password # <<>>

\* a sign-up that stores the username as it was entered
signup_username_as_entered(username) == username

\* username if username else "New User"
signup_username(username) == IF username # <<>> THEN username ELSE NEW_USER

\* the script reaches the sidebar and no button is pressed
Sidebar ==
    /\ run.phase = "shown"
    /\ session_state' = with_logged_in(session_state)
    /\ sidebar' = sidebar_message(session_state')
    /\ UNCHANGED <<primary_csv, historical_csv, run, feedback_csv, now, pc, pending, local,
                   recommendation>>

\* the Login button, with what the two text inputs hold
Login(username, password) ==
    /\ run.phase = "shown"
    /\ "logged_in" \in DOMAIN session_state
    /\ ~session_state["logged_in"]
    /\ IF credentials_accepted(username, password)
       THEN /\ session_state' = set_state(set_state(session_state, "logged_in", TRUE),
                                          "username", username)
            /\ sidebar' = sidebar_message(session_state')
       ELSE /\ session_state' = session_state
            /\ sidebar' = <<PLEASE_ENTER_CREDENTIALS>>
    /\ UNCHANGED <<primary_csv, historical_csv, run, feedback_csv, now, pc, pending, local,
                   recommendation>>

\* the Sign Up button
SignUp(username) ==
    /\ run.phase = "shown"
    /\ "logged_in" \in DOMAIN session_state
    /\ ~session_state["logged_in"]
    /\ session_state' = set_state(set_state(session_state, "logged_in", TRUE),
                                  "username", signup_username(username))
    /\ sidebar' = sidebar_message(session_state')
    /\ UNCHANGED <<primary_csv, historical_csv, run, feedback_csv, now, pc, pending, local,
                   recommendation>>

\* the Logout button
Logout ==
    /\ run.phase = "shown"
    /\ "logged_in" \in DOMAIN session_state
    /\ session_state["logged_in"]
    /\ session_state' = set_state(session_state, "logged_in", FALSE)
    /\ sidebar' = sidebar_message(session_state')
    /\ UNCHANGED <<primary_csv, historical_csv, run, feedback_csv, now, pc, pending, local,
                   recommendation>>

\* what the visitor types in the Username and Password inputs
Usernames == {<<>>, <<" ">>, <<"a", "n", "a">>, <<"b", "o">>}

Passwords == {<<>>, <<"p", "w">>}

InitLogin ==
    /\ primary_csv = SamplePrimary
    /\ historical_csv = SampleHistorical
    /\ run = NotRun
    /\ feedback_csv = NoFeedbackFile
    /\ now = 0
    /\ pc = <<>>
    /\ pending = <<>>
    /\ local = <<>>
    /\ recommendation = NoRecommendation
    /\ session_state = NewSession
    /\ sidebar = NoMessage

NextLogin ==
    \/ LoadData
    \/ \E q \in Queries, m \in LoadMoods : SearchBlock(q, m, <<>>, <<>>)
    \/ Rerun
    \/ Sidebar
    \/ \E username \in Usernames, password \in Passwords : Login(username, password)
    \/ \E username \in Usernames : SignUp(username)
    \/ Logout

SpecLogin == InitLogin /\ [][NextLogin]_vars

\* C22: the Login button sets logged_in and stores the username exactly when
\* the username and the password entered are both non-empty; when either is
\* empty, logged_in stays false and the sidebar shows an error.
C22_LoginNeedsBothCredentials ==
    [][\A username \in Usernames, password \in Passwords :
          Login(username, password) =>
             IF username # <<>> /\ password # <<>>
             THEN /\ session_state'["logged_in"] = TRUE
                  /\ session_state'["username"] = username
             ELSE /\ session_state'["logged_in"] = FALSE
                  /\ sidebar' = <<"Please enter credentials">>]_vars

\* a visitor logged in under a name, logged out, and then pressed Login with
\* an input left empty
C22_Witness ==
    /\ "username" \in DOMAIN session_state
    /\ session_state["username"] # NEW_USER
    /\ session_state["logged_in"] = FALSE
    /\ sidebar = <<PLEASE_ENTER_CREDENTIALS>>

\* the session is logged in
LoggedIn == "logged_in" \in DOMAIN session_state /\ session_state["logged_in"] = TRUE

\* C23: whenever logged_in is true, the session holds a username, and the
\* username is not empty.  Login stores the non-empty username entered, Sign Up
\* logs in whatever was entered and stores the username entered, or "New User"
\* when none was, and Logout changes nothing but logged_in, which it makes false.
C23_LoggedInHasUsername ==
    /\ [](LoggedIn => /\ "username" \in DOMAIN session_state
                      /\ session_state["username"] # <<>>)
    /\ [][\A username \in Usernames, password \in Passwords :
            (Login(username, password) /\ LoggedIn') =>
                /\ username # <<>>
                /\ session_state'["username"] = username]_vars
    /\ [][\A username \in Usernames :
            SignUp(username) =>
                /\ LoggedIn'
                /\ session_state'["username"] =
                      IF username = <<>> THEN <<"N", "e", "w", " ", "U", "s", "e", "r">>
                      ELSE username]_vars
    /\ [][Logout =>
            /\ DOMAIN session_state' = DOMAIN session_state
            /\ session_state'["logged_in"] = FALSE
            /\ \A key \in DOMAIN session_state \ {"logged_in"} :
                  session_state'[key] = session_state[key]]_vars

\* a visitor signed up without typing a name
C23_Witness ==
    /\ "logged_in" \in DOMAIN session_state
    /\ session_state["logged_in"] = TRUE
    /\ session_state["username"] = NEW_USER

(***************************************************************************)
(* The fallback to the words of the query, checked under SpecSearch.       *)
(***************************************************************************)

\* the row passes the filters and holds the whole query in one of the four
\* fields the text search reads
WholeQueryMatch(r) ==
    /\ PassesFilters(r)
    /\ \E field \in {"title", "description", "Topical Theme", "Mood/Intent"} :
          Holds(lower(r[field]), lower(run.search_query))

\* the row passes the filters and holds a word of the query in its title or
\* in its description
WordMatch(r) ==
    /\ PassesFilters(r)
    /\ \E k \in DOMAIN split(lower(run.search_query)) :
          \/ Holds(lower(r["title"]), split(lower(run.search_query))[k])
          \/ Holds(lower(r["description"]), split(lower(run.search_query))[k])

\* C24: for a non-empty query, when some event that passes the filters holds
\* the whole query, the result is made of such events only (the words are not
\* tried); when none does, the result is exactly the set of the events that
\* pass the filters and hold at least one word of the lower-cased query in
\* their lower-cased title or description, and no event is listed twice.
C24_WordFallback ==
    (Searched /\ run.search_query # <<>>) =>
        IF \E j \in DOMAIN run.df.rows : WholeQueryMatch(run.df.rows[j])
        THEN \A i \in DOMAIN run.results : WholeQueryMatch(run.results[i])
        ELSE /\ run.error = ""
             /\ {run.results[i] : i \in DOMAIN run.results} =
                   {run.df.rows[j] : j \in {k \in DOMAIN run.df.rows : WordMatch(run.df.rows[k])}}
             /\ \A i, j \in DOMAIN run.results :
                   run.results[i]["event_id"] = run.results[j]["event_id"] => i = j

(***************************************************************************)
(* The ZIP code and weather filters on catalogues with and without their   *)
(* columns.                                                                *)
(***************************************************************************)

\* the search catalogue, whole, and with the Postcode column, the Weather
\* Badge column or both left out of the file
FilterFiles ==
    LET no_postcode == without_column(PRIMARY_COLUMNS, SearchPrimary.rows, "Postcode")
        no_weather == without_column(PRIMARY_COLUMNS, SearchPrimary.rows, "Weather Badge")
        neither == without_column(no_postcode.columns, no_postcode.rows, "Weather Badge")
    IN  {SearchPrimary} \cup
        {[status |-> "ok"] @@ table : table \in {no_postcode, no_weather, neither}}

InitFilters ==
    /\ primary_csv \in FilterFiles
    /\ historical_csv = SampleHistorical
    /\ run = NotRun
    /\ feedback_csv = NoFeedbackFile
    /\ now = 0
    /\ pc = <<>>
    /\ pending = <<>>
    /\ local = <<>>
    /\ recommendation = NoRecommendation
    /\ session_state = NewSession
    /\ sidebar = NoMessage

NextFilters ==
    \/ LoadData
    \/ \E q \in SearchQueries, m \in SearchMoods, z \in SearchZipcodes, w \in WEATHER_OPTIONS :
          SearchBlock(q, m, z, w)
    \/ Rerun

SpecFilters == InitFilters /\ [][NextFilters]_vars

\* what the search block of this run leaves in results and error when it is
\* given these values of the ZIP code and weather filters
Outcome(zipcode_input, weather_filter) ==
    LET failure == IF run.search_query # <<>>
                   THEN search_error(run.df, run.search_query, run.mood_input,
                                     zipcode_input, weather_filter)
                   ELSE ""
        results == IF run.search_query # <<>> /\ failure = ""
                   THEN search(run.df, run.search_query, run.mood_input,
                               zipcode_input, weather_filter)
                   ELSE <<>>
    IN  [results |-> results,
         error |-> IF failure # "" THEN failure ELSE display_error(run.df, results)]

\* C25: when the table has no Postcode column, a search with a ZIP code gives
\* the events, and raises the error if any, of the same search without a ZIP
\* code; likewise for the weather filter and the Weather Badge column.  When
\* the table has the column, every event of the result passes the filter.
C25_FilterIgnoredWithoutColumn ==
    Searched =>
        /\ (run.zipcode_input # <<>> /\ "Postcode" \notin run.df.columns) =>
              /\ run.results = Outcome(<<>>, run.weather_filter).results
              /\ run.error = Outcome(<<>>, run.weather_filter).error
              /\ run.error # "KeyError"
        /\ (run.weather_filter # <<>> /\ "Weather Badge" \notin run.df.columns) =>
              /\ run.results = Outcome(run.zipcode_input, <<>>).results
              /\ run.error = Outcome(run.zipcode_input, <<>>).error
              /\ run.error # "KeyError"
        /\ (run.zipcode_input # <<>> /\ "Postcode" \in run.df.columns) =>
              \A i \in DOMAIN run.results :
                 SubSeq(run.results[i]["Postcode"], 1, Len(run.zipcode_input)) = run.zipcode_input
        /\ (run.weather_filter # <<>> /\ "Weather Badge" \in run.df.columns) =>
              \A i \in DOMAIN run.results :
                 Holds(lower(run.results[i]["Weather Badge"]), lower(run.weather_filter))

\* a search on a table without Postcode and without Weather Badge, with a ZIP
\* code no event has and a weather option, that lists events
C25_Witness ==
    /\ run.phase = "shown"
    /\ "Postcode" \notin run.df.columns
    /\ "Weather Badge" \notin run.df.columns
    /\ run.zipcode_input = <<"9", "9", "9">>
    /\ run.weather_filter # <<>>
    /\ run.results # <<>>

====
